---- MODULE Spec2Model ----
(***************************************************************************)
(* A model of the Justify document chatbot: rag_pipeline.py (chunking,     *)
(* suggestion generation, glossary extraction) and app.py (the Streamlit   *)
(* script run with its session state and handle_user_input).               *)
(*                                                                         *)
(* Python strings are sequences of one-character strings, so that strip,   *)
(* split, splitlines and the regular expressions of the source are         *)
(* computed character by character.                                        *)
(***************************************************************************)
EXTENDS Integers, Sequences, FiniteSets, TLC

VARIABLES
    \* generate_suggestions (rag_pipeline.py 49-103): its argument, the number
    \* of documents the loop has handled, its locals and its position
    docs, i, raw_output, questions, all_questions, sg_pc,
    \* extract_legal_glossary and get_spacy_model (rag_pipeline.py 106-160):
    \* the argument, the returned list, the position, the value cached by
    \* st.cache_resource, whether en_core_web_sm can be loaded, and the calls
    \* of spacy.load and of download made by the current call
    documents, results, gl_pc, nlp_cache, asset_present, load_calls,
    download_calls, constructions,
    \* load_documents (rag_pipeline.py 26-32): the pages the loader read from
    \* the file, the returned chunks and the position
    pages, chunks, ch_pc,
    \* app.py: the value of the file uploader, the keys of st.session_state
    \* (lines 28-30), the record of every call of the answer chain with the
    \* arguments it received, and how the last script run ended
    uploaded_files, chat_history, chat_chain, chat_memory, suggestions, llm,
    glossary, uploaded_files_count, chain_calls, run_error

sgVars == <<docs, i, raw_output, questions, all_questions, sg_pc>>

glVars == <<documents, results, gl_pc, nlp_cache, asset_present, load_calls,
            download_calls, constructions>>

chVars == <<pages, chunks, ch_pc>>

upVars == <<chat_chain, suggestions, llm, glossary, uploaded_files_count>>

chatVars == <<chat_history, chat_memory, chain_calls>>

appVars == <<uploaded_files, upVars, chatVars, run_error>>

vars == <<sgVars, glVars, chVars, appVars>>

(***************************************************************************)
(* Bounds of the model.                                                    *)
(***************************************************************************)
\* longest list of documents handed to generate_suggestions
MaxDocs == 3
\* most lines of one generator output, when built from Lines
MaxLines == 3
\* most entities the recognizer finds in the chunk that is classified
MaxEnts == 1
\* longest list of chunks handed to extract_legal_glossary
MaxChunks == 2
\* spacy.load is not counted beyond this many successful loads
MaxLoads == 3
\* most pages of a loaded file, most paragraphs of a page
MaxPages == 2
MaxParas == 3
\* most questions asked in one session
MaxQuestions == 3

(***************************************************************************)
(* Python string primitives.                                               *)
(***************************************************************************)
Min(S) == CHOOSE x \in S : \A y \in S : x <= y
Max(S) == CHOOSE x \in S : \A y \in S : x >= y

Range(s) == {s[k] : k \in 1..Len(s)}

\* the whitespace of the modelled alphabet (str.isspace)
WhiteSpace == {" ", "\n", "\t"}
Digits == {"0", "1", "2", "3", "4", "5", "6", "7", "8", "9"}

\* first index >= p whose character is outside cs, Len(s)+1 if none
SkipChars(s, p, cs) ==
    Min({k \in p..(Len(s) + 1) : k = Len(s) + 1 \/ s[k] \notin cs})

\* last index <= p whose character is outside cs, 0 if none
SkipCharsBack(s, p, cs) ==
    Max({k \in 0..p : k = 0 \/ s[k] \notin cs})

\* first index >= p holding a newline, Len(s)+1 if none
LineEnd(s, p) ==
    Min({k \in p..(Len(s) + 1) : k = Len(s) + 1 \/ s[k] = "\n"})

\* str.strip(chars): drops the characters of cs from BOTH ends
StripChars(s, cs) ==
    LET a == SkipChars(s, 1, cs)
        b == SkipCharsBack(s, Len(s), cs)
    IN  IF a > b THEN <<>> ELSE SubSeq(s, a, b)

\* str.strip()
Strip(s) == StripChars(s, WhiteSpace)

\* len(s.split()): the number of maximal runs of non-whitespace
WordCount(s) ==
    Cardinality({k \in 1..Len(s) :
        s[k] \notin WhiteSpace /\ (k = 1 \/ s[k - 1] \in WhiteSpace)})

\* s.endswith(c) for a one-character c
EndsWith(s, c) == Len(s) > 0 /\ s[Len(s)] = c

\* str.splitlines() over "\n": no final empty line after a trailing newline
RECURSIVE SplitFrom(_, _)
SplitFrom(s, p) ==
    IF p > Len(s) THEN <<>>
    ELSE LET e == LineEnd(s, p)
         IN  <<SubSeq(s, p, e - 1)>> \o SplitFrom(s, e + 1)

SplitLines(s) == SplitFrom(s, 1)

\* "\n".join(lines)
RECURSIVE JoinLines(_)
JoinLines(ls) ==
    IF ls = <<>> THEN <<>>
    ELSE IF Len(ls) = 1 THEN ls[1]
    ELSE ls[1] \o <<"\n">> \o JoinLines(Tail(ls))

\* s[:n]
Take(s, n) == SubSeq(s, 1, IF Len(s) < n THEN Len(s) ELSE n)

\* all sequences over S of length at most n
SeqsUpTo(S, n) == UNION {[1..k -> S] : k \in 0..n}

(***************************************************************************)
(* generate_suggestions: the per-document parse.                           *)
(***************************************************************************)
\* questions[:5]
PerDocCap == 5
\* len(q.split()) <= 12
MaxWords == 12
\* len(all_questions) > 10, random.sample(all_questions, 10)
PoolMax == 10
\* len(all_questions) < 8, fallback[: 8 - len(all_questions)]
PoolMin == 8

\* one attempt of r'^\s*\d+[\.\)]\s*(.+)' at position p (re.MULTILINE):
\* greedy \s* (it may cross newlines), \d+, one of . or ), greedy \s*, then
\* (.+) to the end of the line; when nothing is left for (.+), \s* gives
\* characters back until (.+) can start on a non-newline.
MatchAt(text, p) ==
    LET q == SkipChars(text, p, WhiteSpace)
        r == SkipChars(text, q, Digits)
        none == [ok |-> FALSE, cap |-> <<>>, next |-> p + 1]
    IN  IF r = q \/ r > Len(text) THEN none
        ELSE IF text[r] \notin {".", ")"} THEN none
        ELSE LET s == SkipChars(text, r + 1, WhiteSpace)
                 back == {k \in (r + 1)..Len(text) : text[k] # "\n"}
             IN  IF s <= Len(text)
                 THEN [ok |-> TRUE,
                       cap |-> SubSeq(text, s, LineEnd(text, s) - 1),
                       next |-> LineEnd(text, s)]
                 ELSE IF back = {} THEN none
                 ELSE [ok |-> TRUE,
                       cap |-> SubSeq(text, Max(back), LineEnd(text, Max(back)) - 1),
                       next |-> LineEnd(text, Max(back))]

\* ^ under re.MULTILINE: the start of the text or just after a newline
AtLineStart(text, p) == p = 1 \/ text[p - 1] = "\n"

\* re.findall(r'^\s*\d+[\.\)]\s*(.+)', raw_output, flags=re.MULTILINE):
\* the captures of the non-overlapping matches, scanning left to right
RECURSIVE FindFrom(_, _)
FindFrom(text, p) ==
    IF p > Len(text) THEN <<>>
    ELSE IF AtLineStart(text, p) /\ MatchAt(text, p).ok
         THEN <<MatchAt(text, p).cap>> \o FindFrom(text, MatchAt(text, p).next)
         ELSE FindFrom(text, p + 1)

FindNumbered(text) == FindFrom(text, 1)

\* line.strip("-•*1234567890. "): the bullet U+2022 is outside the modelled
\* alphabet and is written here as "o|" so that the set keeps its size
BulletChars == {"-", "o|", "*", "."," "} \cup Digits

\* [line.strip("-•*1234567890. ") for line in raw_output.splitlines()
\*  if line.strip()]
FallbackLines(text) ==
    LET ls == SplitLines(text)
        keep(l) == Strip(l) # <<>>
        kept == SelectSeq(ls, keep)
    IN  [k \in 1..Len(kept) |-> StripChars(kept[k], BulletChars)]

\* mutant of KeepQuestion: the q.endswith("?") test is lost
KeepQuestionAnyEnding(q) == WordCount(q) <= MaxWords

\* the condition of line 81: len(q.split()) <= 12 and q.endswith("?")
KeepQuestion(q) == WordCount(q) <= MaxWords /\ EndsWith(q, "?")

\* lines 76-81: numbered captures, else the fallback lines; then the filter,
\* each survivor stripped
ParseQuestions(text) ==
    LET numbered == FindNumbered(text)
        cands == IF numbered = <<>> THEN FallbackLines(text) ELSE numbered
        kept == SelectSeq(cands, KeepQuestion)
    IN  [k \in 1..Len(kept) |-> Strip(kept[k])]

\* the fallback list of lines 89-100
fallback ==
    << <<"W","h","a","t"," ","i","s"," ","t","h","e"," ","m","a","i","n"," ","p","u","r","p","o","s","e"," ","o","f"," ","t","h","i","s"," ","A","c","t","?">>,
       <<"W","h","o"," ","e","n","f","o","r","c","e","s"," ","t","h","i","s"," ","A","c","t","?">>,
       <<"W","h","e","n"," ","w","a","s"," ","i","t"," ","e","n","a","c","t","e","d","?">>,
       <<"W","h","o"," ","b","e","n","e","f","i","t","s"," ","f","r","o","m"," ","i","t","?">>,
       <<"W","h","a","t"," ","p","e","n","a","l","t","i","e","s"," ","a","r","e"," ","i","n","c","l","u","d","e","d","?">>,
       <<"W","h","a","t"," ","r","i","g","h","t","s"," ","a","r","e"," ","g","u","a","r","a","n","t","e","e","d","?">>,
       <<"W","h","i","c","h"," ","a","u","t","h","o","r","i","t","y"," ","o","v","e","r","s","e","e","s"," ","c","o","m","p","l","i","a","n","c","e","?">>,
       <<"W","h","a","t"," ","i","s"," ","t","h","e"," ","s","c","o","p","e"," ","o","f"," ","t","h","e"," ","l","a","w","?">>,
       <<"A","r","e"," ","t","h","e","r","e"," ","a","n","y"," ","e","x","c","e","p","t","i","o","n","s","?">>,
       <<"W","h","a","t"," ","i","s"," ","t","h","e"," ","d","e","f","i","n","i","t","i","o","n"," ","o","f"," ","k","e","y"," ","t","e","r","m","s","?">> >>

\* the number of entries of s equal to q
Count(s, q) == Cardinality({k \in 1..Len(s) : s[k] = q})

\* the lists random.sample(pool, n) can return: every ordered choice of n
\* entries from n distinct positions of pool
SampleOutcomes(pool, n) ==
    {res \in [1..n -> Range(pool)] :
        \A q \in Range(pool) : Count(res, q) <= Count(pool, q)}

\* mutant of NormalizeOutcomes: a short pool is padded up to the upper limit
NormalizeOutcomesPadToMax(pool) ==
    IF Len(pool) > PoolMax THEN SampleOutcomes(pool, PoolMax)
    ELSE IF Len(pool) < PoolMin
         THEN {pool \o SubSeq(fallback, 1, PoolMax - Len(pool))}
         ELSE {pool}

\* lines 86-101: the lists the pool normalisation can leave in all_questions
NormalizeOutcomes(pool) ==
    IF Len(pool) > PoolMax THEN SampleOutcomes(pool, PoolMax)
    ELSE IF Len(pool) < PoolMin
         THEN {pool \o SubSeq(fallback, 1, PoolMin - Len(pool))}
         ELSE {pool}

(***************************************************************************)
(* The strings the generator may return for one document: every text of at *)
(* most MaxLines lines drawn from Lines, and three longer lists.           *)
(***************************************************************************)
LineDot == <<"1","."," ","a","?">>
LineParen == <<"2",")"," ","b","?">>
LineDash == <<"-"," ","a","?">>
LineStar == <<"*"," ","b","?">>
LineBlank == <<>>
LineProse == <<"a"," ","b">>
LineMarker == <<"3",".">>
LineTail == <<"b","?"," ","4",".">>
LinePadded == <<" ","5","."," ","a","?"," ">>
LineWords12 == <<"1","."," ","a"," ","a"," ","a"," ","a"," ","a"," ","a"," ","a"," ","a"," ","a"," ","a"," ","a"," ","a","?">>
LineWords13 == <<"2","."," ","a"," ","a"," ","a"," ","a"," ","a"," ","a"," ","a"," ","a"," ","a"," ","a"," ","a"," ","a"," ","a","?">>

Lines == {LineDot, LineParen, LineDash, LineStar, LineBlank, LineProse,
          LineMarker, LineTail, LinePadded, LineWords12, LineWords13}

\* a numbered list of 7 questions, a bulleted list of 6, a numbered list of
\* 6 whose third entry has 13 words
LongNumbered == <<LineDot, LineParen, LineDot, LineParen, LineDot, LineParen, LineDot>>
LongBulleted == <<LineDash, LineStar, LineDash, LineStar, LineDash, LineStar>>
LongMixed == <<LineDot, LineParen, LineWords13, LineParen, LineDot, LineParen>>

RawOutputs ==
    {JoinLines(ls) : ls \in SeqsUpTo(Lines, MaxLines)}
        \cup {JoinLines(LongNumbered), JoinLines(LongBulleted), JoinLines(LongMixed)}

\* the outputs used when several documents are pooled: empty, prose, one
\* bulleted question, two numbered questions, seven numbered questions
DocOutputs ==
    {<<>>, LineProse, LineDash, JoinLines(<<LineDot, LineParen>>),
     JoinLines(LongNumbered)}

(***************************************************************************)
(* extract_legal_glossary: the classification of one entity.               *)
(***************************************************************************)
\* len(token_text.split()) <= 4
ConceptWords == 4

\* re.IGNORECASE over the letters of the pattern
LowerCase(c) ==
    CASE c = "S" -> "s" [] c = "E" -> "e" [] c = "C" -> "c" [] c = "T" -> "t"
      [] c = "I" -> "i" [] c = "O" -> "o" [] c = "N" -> "n" [] OTHER -> c

\* s starts with the lower-case word w, letter case ignored
StartsWithIgnoreCase(s, w) ==
    /\ Len(s) >= Len(w)
    /\ \A k \in 1..Len(w) : LowerCase(s[k]) = w[k]

\* \s*\d+ matches at position p of s
DigitsAfterSpace(s, p) ==
    LET q == SkipChars(s, p, WhiteSpace)
    IN  q <= Len(s) /\ s[q] \in Digits

\* re.match(r'(Section|Sec\.?)\s*\d+', token_text, re.IGNORECASE): anchored
\* at the start of the text, the alternatives and the optional dot tried in
\* turn
SectionPattern(s) ==
    \/ StartsWithIgnoreCase(s, <<"s","e","c","t","i","o","n">>) /\ DigitsAfterSpace(s, 8)
    \/ /\ StartsWithIgnoreCase(s, <<"s","e","c">>)
       /\ \/ Len(s) >= 4 /\ s[4] = "." /\ DigitsAfterSpace(s, 5)
          \/ DigitsAfterSpace(s, 4)

Categories == {"Acts/Laws", "Authorities", "Dates", "Sections", "Concepts"}

\* mutant of CategoryOf: the Section pattern is tried before the labels
CategoryOfPatternFirst(ent) ==
    LET token_text == Strip(ent.text)
    IN  IF SectionPattern(token_text) THEN "Sections"
        ELSE IF ent.label \in {"LAW"} THEN "Acts/Laws"
        ELSE IF ent.label \in {"ORG", "GPE"} THEN "Authorities"
        ELSE IF ent.label \in {"DATE"} THEN "Dates"
        ELSE IF ent.pos \in {"PROPN", "NOUN"} /\ WordCount(token_text) <= ConceptWords
             THEN "Concepts"
        ELSE "dropped"

\* lines 137-152: the list the entity's text is appended to, "dropped" when
\* it is appended to none
CategoryOf(ent) ==
    LET token_text == Strip(ent.text)
    IN  IF ent.label \in {"LAW"} THEN "Acts/Laws"
        ELSE IF ent.label \in {"ORG", "GPE"} THEN "Authorities"
        ELSE IF ent.label \in {"DATE"} THEN "Dates"
        ELSE IF SectionPattern(token_text) THEN "Sections"
        ELSE IF ent.pos \in {"PROPN", "NOUN"} /\ WordCount(token_text) <= ConceptWords
             THEN "Concepts"
        ELSE "dropped"

\* lines 126-156 for one chunk: ents is what nlp(text).ents holds, each with
\* its text, label_ and root.pos_; list(set(...)) leaves each category
\* without duplicates and in no particular order, hence a set
GlossaryOf(ents) ==
    [c \in Categories |->
        {Strip(ents[k].text) : k \in {j \in 1..Len(ents) : CategoryOf(ents[j]) = c}}]

\* doc.metadata.get("source", "Unknown")
NoSource == "(no source)"
SourceOf(doc) == IF doc.source = NoSource THEN "Unknown" ELSE doc.source

\* lines 121-160: one (source, glossary) tuple appended per element of
\* documents, in order
ExtractResults(ds) ==
    [k \in 1..Len(ds) |-> <<SourceOf(ds[k]), GlossaryOf(ds[k].ents)>>]

(***************************************************************************)
(* The entities and chunks the model draws from.                           *)
(***************************************************************************)
TextSection == <<" ","S","e","c","t","i","o","n"," ","5"," ">>
TextSec == <<"s","e","c",".","1","2">>
TextAct == <<"C","l","e","a","n"," ","A","i","r"," ","A","c","t">>
TextLong == <<"O","f","f","i","c","e"," ","o","f"," ","t","h","e"," ","C","h","i","e","f"," ","C","o","m","m","i","s","s","i","o","n","e","r">>

TextPlural == <<"S","e","c","t","i","o","n","s"," ","5">>
TextNoNumber == <<"S","E","C","."," ","f","i","v","e">>

EntityTexts == {TextSection, TextSec, TextAct, TextLong, TextPlural, TextNoNumber}
EntityLabels == {"LAW", "ORG", "GPE", "DATE", "PERSON"}
EntityPos == {"PROPN", "NOUN", "VERB"}

Entities == [text : EntityTexts, label : EntityLabels, pos : EntityPos]

Sources == {"a.pdf", "b.pdf", NoSource}

\* the chunk whose entities are classified
ClassifyInputs ==
    {<<[source |-> "a.pdf", ents |-> es]>> : es \in SeqsUpTo(Entities, MaxEnts)}

\* lists of chunks of several sources, each with no entity or with one
GlossChunks ==
    [source : Sources,
     ents : {<<>>, <<[text |-> TextAct, label |-> "LAW", pos |-> "PROPN"]>>}]

GlossInputs == SeqsUpTo(GlossChunks, MaxChunks)

(***************************************************************************)
(* extract_legal_glossary as a process: get_spacy_model step by step, then *)
(* the loop over documents and the return.                                 *)
(***************************************************************************)
\* no call of extract_legal_glossary is in progress and none was made
GlossQuiet ==
    /\ documents = <<>>
    /\ results = <<>>
    /\ gl_pc = "idle"
    /\ nlp_cache = "none"
    /\ asset_present = FALSE
    /\ load_calls = 0
    /\ download_calls = 0
    /\ constructions = 0

\* mutant of CacheLookup: st.cache_resource is lost, every call constructs
CacheLookupNever(cache) == FALSE

\* @st.cache_resource on get_spacy_model: a value returned earlier is
\* returned again without running the function
CacheLookup(cache) == cache # "none"

\* line 120: extract_legal_glossary(ds) is entered and calls get_spacy_model
CallExtract(ds) ==
    /\ gl_pc \in {"idle", "returned", "raised"}
    /\ constructions < MaxLoads
    /\ documents' = ds
    /\ results' = <<>>
    /\ load_calls' = 0
    /\ download_calls' = 0
    /\ gl_pc' = IF CacheLookup(nlp_cache) THEN "loop" ELSE "load"
    /\ UNCHANGED <<nlp_cache, asset_present, constructions>>
    /\ UNCHANGED <<sgVars, chVars, appVars>>

\* line 109: spacy.load succeeds; the cache keeps the returned model
FirstLoadOk ==
    /\ gl_pc = "load"
    /\ asset_present
    /\ load_calls' = load_calls + 1
    /\ constructions' = constructions + 1
    /\ nlp_cache' = "nlp"
    /\ gl_pc' = "loop"
    /\ UNCHANGED <<documents, results, asset_present, download_calls>>
    /\ UNCHANGED <<sgVars, chVars, appVars>>

\* lines 109-110: spacy.load raises OSError, the model cannot be found
FirstLoadMissing ==
    /\ gl_pc = "load"
    /\ ~asset_present
    /\ load_calls' = load_calls + 1
    /\ gl_pc' = "download"
    /\ UNCHANGED <<documents, results, nlp_cache, asset_present, download_calls,
                   constructions>>
    /\ UNCHANGED <<sgVars, chVars, appVars>>

\* line 109: spacy.load raises an error that is no OSError; nothing catches
\* it in get_spacy_model or in extract_legal_glossary
FirstLoadOtherError ==
    /\ gl_pc = "load"
    /\ load_calls' = load_calls + 1
    /\ gl_pc' = "raised"
    /\ UNCHANGED <<documents, results, nlp_cache, asset_present, download_calls,
                   constructions>>
    /\ UNCHANGED <<sgVars, chVars, appVars>>

\* lines 111-112: download returns, with the model installed or not
Download ==
    /\ gl_pc = "download"
    /\ download_calls' = download_calls + 1
    /\ asset_present' \in BOOLEAN
    /\ gl_pc' = "retry"
    /\ UNCHANGED <<documents, results, nlp_cache, load_calls, constructions>>
    /\ UNCHANGED <<sgVars, chVars, appVars>>

\* line 112: download itself fails and raises; nothing catches it
DownloadRaises ==
    /\ gl_pc = "download"
    /\ download_calls' = download_calls + 1
    /\ gl_pc' = "raised"
    /\ UNCHANGED <<documents, results, nlp_cache, asset_present, load_calls,
                   constructions>>
    /\ UNCHANGED <<sgVars, chVars, appVars>>

\* line 113: the second spacy.load succeeds
RetryOk ==
    /\ gl_pc = "retry"
    /\ asset_present
    /\ load_calls' = load_calls + 1
    /\ constructions' = constructions + 1
    /\ nlp_cache' = "nlp"
    /\ gl_pc' = "loop"
    /\ UNCHANGED <<documents, results, asset_present, download_calls>>
    /\ UNCHANGED <<sgVars, chVars, appVars>>

\* line 113: the second spacy.load raises, outside the try block
RetryRaises ==
    /\ gl_pc = "retry"
    /\ ~asset_present
    /\ load_calls' = load_calls + 1
    /\ gl_pc' = "raised"
    /\ UNCHANGED <<documents, results, nlp_cache, asset_present, download_calls,
                   constructions>>
    /\ UNCHANGED <<sgVars, chVars, appVars>>

\* lines 121-160: the loop over documents and the return of results
RunLoop ==
    /\ gl_pc = "loop"
    /\ results' = ExtractResults(documents)
    /\ gl_pc' = "returned"
    /\ UNCHANGED <<documents, nlp_cache, asset_present, load_calls,
                   download_calls, constructions>>
    /\ UNCHANGED <<sgVars, chVars, appVars>>


(***************************************************************************)
(* load_documents: CharacterTextSplitter(chunk_size=500, chunk_overlap=50) *)
(* applied to each page.  The splitter cuts a text at its separator, the   *)
(* blank line "\n\n", and merges consecutive pieces into chunks; a page is  *)
(* modelled by the lengths of its paragraphs, the non-empty pieces between  *)
(* blank lines, and a chunk by the paragraphs it joins.                    *)
(***************************************************************************)
\* chunk_size=500, chunk_overlap=50 (line 31); the default separator "\n\n"
ChunkSize == 500
ChunkOverlap == 50
SeparatorLen == 2

\* the separator counted with a piece when the window holds n pieces
SepIf(n) == IF n > 0 THEN SeparatorLen ELSE 0

\* the splitter's loop that drops pieces from the front of the window
\* first..last (of summed length total) after a chunk was emitted: while the
\* window is longer than the overlap, or still too long to take the next
\* piece of length len
RECURSIVE PopFront(_, _, _, _, _)
PopFront(L, first, last, total, len) ==
    LET size == last - first + 1
    IN  IF total > ChunkOverlap
           \/ (total + len + SepIf(size) > ChunkSize /\ total > 0)
        THEN PopFront(L, first + 1, last, total - (L[first] + SepIf(size - 1)), len)
        ELSE [first |-> first, total |-> total]

\* the splitter's merge over the pieces d, d+1, ... with the window
\* first..d-1: a chunk is emitted when the next piece would make the window
\* longer than chunk_size; a piece that is longer than chunk_size on its own
\* is taken whole
RECURSIVE MergeFrom(_, _, _, _, _)
MergeFrom(L, d, first, total, out) ==
    IF d > Len(L)
    THEN IF first <= Len(L) THEN Append(out, [first |-> first, last |-> Len(L)]) ELSE out
    ELSE LET size == d - first
         IN  IF total + L[d] + SepIf(size) > ChunkSize /\ size > 0
             THEN LET p == PopFront(L, first, d - 1, total, L[d])
                  IN  MergeFrom(L, d + 1, p.first,
                                p.total + L[d] + SepIf(d - p.first),
                                Append(out, [first |-> first, last |-> d - 1]))
             ELSE MergeFrom(L, d + 1, first, total + L[d] + SepIf(size), out)

\* splitter.split_text(text) for a text whose paragraphs have the lengths L
SplitText(L) == MergeFrom(L, 1, 1, 0, <<>>)

RECURSIVE Sum(_, _, _)
Sum(L, a, b) == IF a > b THEN 0 ELSE L[a] + Sum(L, a + 1, b)

\* the characters of the paragraphs a..b joined by the separator
JoinedLen(L, a, b) == Sum(L, a, b) + SeparatorLen * (b - a)

RECURSIVE Flatten(_)
Flatten(ss) == IF ss = <<>> THEN <<>> ELSE Head(ss) \o Flatten(Tail(ss))

\* lines 27-32: every page is split on its own and each chunk carries the
\* page's metadata, source set to the file's base name
LoadDocuments(source, ps) ==
    Flatten([n \in 1..Len(ps) |->
        LET cs == SplitText(ps[n])
        IN  [k \in 1..Len(cs) |->
                [source |-> source, page |-> n, first |-> cs[k].first,
                 last |-> cs[k].last,
                 length |-> JoinedLen(ps[n], cs[k].first, cs[k].last)]]])

\* the paragraph lengths and page texts the model draws from
ParaLens == {40, 300, 460, 501}
PageTexts == SeqsUpTo(ParaLens, MaxParas)
FileTexts == SeqsUpTo(PageTexts, MaxPages) \ {<<>>}

\* load_documents(file_path) runs on the pages in ps
ChunkerIdle ==
    /\ pages = <<>>
    /\ chunks = <<>>
    /\ ch_pc = "idle"

SplitDocuments ==
    /\ ch_pc = "loaded"
    /\ chunks' = LoadDocuments("a.pdf", pages)
    /\ ch_pc' = "returned"
    /\ UNCHANGED pages
    /\ UNCHANGED <<sgVars, glVars, appVars>>

\* mutant of DocContribution: the [:5] slice is lost
DocContributionUncapped(qs) == qs

\* questions[:5]
DocContribution(qs) == Take(qs, PerDocCap)

(***************************************************************************)
(* app.py: one action per script run.  Streamlit runs the script from top  *)
(* to bottom on every interaction; st.session_state survives the runs.     *)
(***************************************************************************)
\* session_state.uploaded_files_count before any upload is None, which
\* equals no length
NoCount == -1
\* session_state.chat_chain before any upload
NoChain == [built |-> FALSE, index |-> <<>>]
\* session_state.suggestions and session_state.glossary before any upload:
\* None, which the script only tests for truth, as it does an empty list
NoList == <<>>

\* the files a user can upload, the pages the loader reads from each
\* (paragraph lengths), and the lists the uploader can hold
Files == {"A", "B"}
FilePages(f) == IF f = "A" THEN << <<300, 300>> >> ELSE << <<120>> >>
UploadLists == {<<>>, <<"A">>, <<"B">>, <<"A", "B">>}

\* the base name of the temporary file the upload is written to; tempfile
\* picks the name, which only labels the chunks, and the model fixes one
\* per file
TempName(f) == IF f = "A" THEN "tmpA.pdf" ELSE "tmpB.pdf"

\* what the recognizer finds in a chunk and what the generator returns for
\* it, fixed by the chunk's text
RecognizedIn(chunk) ==
    IF chunk.source = "tmpA.pdf"
    THEN <<[text |-> TextAct, label |-> "LAW", pos |-> "PROPN"]>>
    ELSE <<>>
GeneratedFor(chunk) == IF chunk.source = "tmpA.pdf" THEN LineDot ELSE LineParen

\* lines 125-132: all_docs, the chunks of every uploaded file in order
AllDocs(files) ==
    Flatten([k \in 1..Len(files) |-> LoadDocuments(TempName(files[k]), FilePages(files[k]))])

\* create_temp_qa_chain (rag_pipeline.py 35-46): a new index built from the
\* documents, and the chain over it
BuildChain(all_docs) == [built |-> TRUE, index |-> all_docs]

\* generate_suggestions(all_docs, llm): the lists it can return
SuggestionOutcomes(all_docs) ==
    NormalizeOutcomes(
        Flatten([k \in 1..Len(all_docs) |->
            DocContribution(ParseQuestions(Strip(GeneratedFor(all_docs[k]))))]))

\* extract_legal_glossary(all_docs)
GlossaryFor(all_docs) ==
    ExtractResults([k \in 1..Len(all_docs) |->
        [source |-> all_docs[k].source, ents |-> RecognizedIn(all_docs[k])]])

\* line 140: not st.session_state.get("uploaded_files_count") == len(uploaded_files)
SuggestionsDue(count, files) == ~(count = Len(files))

\* lines 124-146 of a run in which the uploader holds files
UploadHandling(files) ==
    IF files = <<>>
    THEN UNCHANGED upVars
    ELSE /\ chat_chain' = BuildChain(AllDocs(files))
         /\ llm' = "llm"
         /\ IF SuggestionsDue(uploaded_files_count, files)
            THEN /\ suggestions' \in SuggestionOutcomes(AllDocs(files))
                 /\ uploaded_files_count' = Len(files)
            ELSE UNCHANGED <<suggestions, uploaded_files_count>>
         /\ glossary' = GlossaryFor(AllDocs(files))

\* what the call of st.session_state.chat_chain at lines 73-76 does
Answers == {"answer 1", "answer 2"}
ChainOutcomes ==
    {[kind |-> "answer", answer |-> a] : a \in Answers}
        \cup {[kind |-> "raised", answer |-> ""]}

\* mutant of ChainInput: only the last turn is handed to the chain
ChainInputLastTurn(memory) ==
    IF memory = <<>> THEN <<>> ELSE <<memory[Len(memory)]>>

\* line 75: the "chat_history" the chain is called with
ChainInput(memory) == memory

\* mutant of MemoryAfter: a failure of the chain is caught and a turn with a
\* stand-in answer is recorded
MemoryAfterMasked(memory, q, outcome) ==
    Append(memory, <<q, IF outcome.kind = "answer" THEN outcome.answer ELSE "(no answer)">>)

\* line 119, reached only when the chain has returned
MemoryAfter(memory, q, outcome) ==
    IF outcome.kind = "answer" THEN Append(memory, <<q, outcome.answer>>) ELSE memory

\* lines 70 and 118: the user message always, the assistant message only
\* when the chain has returned
HistoryAfter(history, q, outcome) ==
    IF outcome.kind = "answer"
    THEN history \o <<[role |-> "user", content |-> q],
                      [role |-> "assistant", content |-> outcome.answer]>>
    ELSE Append(history, [role |-> "user", content |-> q])

\* handle_user_input(q) for a non-empty q (lines 66-119); the translation
\* of lines 81-84 and the rendering change no session state
HandleUserInput(q, outcome) ==
    /\ chain_calls' = Append(chain_calls,
           [question |-> q, chat_history |-> ChainInput(chat_memory), outcome |-> outcome])
    /\ chat_history' = HistoryAfter(chat_history, q, outcome)
    /\ chat_memory' = MemoryAfter(chat_memory, q, outcome)
    /\ run_error' = IF outcome.kind = "raised" THEN "chain raised" ELSE "none"

\* a run started by a change of the uploader (or of another widget): no
\* question is asked in it
Rerun(files) ==
    /\ uploaded_files' = files
    /\ UploadHandling(files)
    /\ run_error' = "none"
    /\ UNCHANGED chatVars
    /\ UNCHANGED <<sgVars, glVars, chVars>>

\* a run started by a typed or spoken question (lines 211 and 220)
Ask(q, outcome) ==
    /\ uploaded_files # <<>>
    /\ Len(chain_calls) < MaxQuestions
    /\ UploadHandling(uploaded_files)
    /\ HandleUserInput(q, outcome)
    /\ UNCHANGED uploaded_files
    /\ UNCHANGED <<sgVars, glVars, chVars>>

\* a run started by a click on the button of suggestion n (line 174)
ClickSuggestion(n, outcome) ==
    /\ uploaded_files # <<>>
    /\ Len(chain_calls) < MaxQuestions
    /\ n <= Len(suggestions)
    /\ UploadHandling(uploaded_files)
    /\ HandleUserInput(suggestions'[n], outcome)
    /\ UNCHANGED uploaded_files
    /\ UNCHANGED <<sgVars, glVars, chVars>>

\* lines 28-30: the session state of a new session, nothing uploaded
AppIdle ==
    /\ uploaded_files = <<>>
    /\ chat_history = <<>>
    /\ chat_chain = NoChain
    /\ chat_memory = <<>>
    /\ suggestions = NoList
    /\ llm = "None"
    /\ glossary = NoList
    /\ uploaded_files_count = NoCount
    /\ chain_calls = <<>>
    /\ run_error = "none"

GlossIdle == GlossQuiet /\ ChunkerIdle /\ AppIdle

\* the questions typed and the suggestion buttons clicked in the model
TypedQuestions == {<<"w","h","o","?">>}
ClickedButtons == {1}

(***************************************************************************)
(* generate_suggestions as a process: one step per document of the loop of *)
(* lines 52-83, then the normalisation of lines 86-101 and the return.     *)
(***************************************************************************)
\* lines 71-83 for the next document; out is what str(llm.invoke(prompt))
\* evaluates to
ProcessDoc(out) ==
    /\ sg_pc = "loop"
    /\ i < Len(docs)
    /\ raw_output' = Strip(out)
    /\ questions' = ParseQuestions(raw_output')
    /\ all_questions' = all_questions \o DocContribution(questions')
    /\ i' = i + 1
    /\ UNCHANGED <<docs, sg_pc>>
    /\ UNCHANGED <<glVars, chVars, appVars>>

\* lines 86-103 once the loop has ended
Normalize ==
    /\ sg_pc = "loop"
    /\ i = Len(docs)
    /\ all_questions' \in NormalizeOutcomes(all_questions)
    /\ sg_pc' = "done"
    /\ UNCHANGED <<docs, i, raw_output, questions>>
    /\ UNCHANGED <<glVars, chVars, appVars>>

\* generate_suggestions(docs, llm) entered with a list of n documents
SuggStart(n) ==
    /\ docs = [k \in 1..n |-> k]
    /\ i = 0
    /\ raw_output = <<>>
    /\ questions = <<>>
    /\ all_questions = <<>>
    /\ sg_pc = "loop"

InitSugg == (\E n \in 0..MaxDocs : SuggStart(n)) /\ GlossIdle

NextSugg ==
    \/ \E out \in DocOutputs : ProcessDoc(out)
    \/ Normalize

SpecSugg == InitSugg /\ [][NextSugg]_vars

InitParse == SuggStart(1) /\ GlossIdle

NextParse ==
    \/ \E out \in RawOutputs : ProcessDoc(out)
    \/ Normalize

SpecParse == InitParse /\ [][NextParse]_vars

SuggIdle == SuggStart(0)

\* the process starts with nothing cached, en_core_web_sm installed or not
InitGloss ==
    /\ documents = <<>>
    /\ results = <<>>
    /\ gl_pc = "idle"
    /\ nlp_cache = "none"
    /\ asset_present \in BOOLEAN
    /\ load_calls = 0
    /\ download_calls = 0
    /\ constructions = 0
    /\ SuggIdle
    /\ ChunkerIdle
    /\ AppIdle

NextGloss ==
    \/ \E ds \in GlossInputs : CallExtract(ds)
    \/ FirstLoadOk
    \/ FirstLoadMissing
    \/ FirstLoadOtherError
    \/ Download
    \/ DownloadRaises
    \/ RetryOk
    \/ RetryRaises
    \/ RunLoop

SpecGloss == InitGloss /\ [][NextGloss]_vars

\* extract_legal_glossary entered with one chunk, the recognizer cached
InitClassify ==
    /\ documents \in ClassifyInputs
    /\ results = <<>>
    /\ gl_pc = "loop"
    /\ nlp_cache = "nlp"
    /\ asset_present = TRUE
    /\ load_calls = 0
    /\ download_calls = 0
    /\ constructions = 1
    /\ SuggIdle
    /\ ChunkerIdle
    /\ AppIdle

NextClassify == RunLoop

SpecClassify == InitClassify /\ [][NextClassify]_vars

\* load_documents entered, the loader having read the pages of a file
InitChunk ==
    /\ pages \in FileTexts
    /\ chunks = <<>>
    /\ ch_pc = "loaded"
    /\ SuggIdle
    /\ GlossQuiet
    /\ AppIdle

NextChunk == SplitDocuments

SpecChunk == InitChunk /\ [][NextChunk]_vars

InitApp == AppIdle /\ SuggIdle /\ GlossQuiet /\ ChunkerIdle

NextApp ==
    \/ \E files \in UploadLists : Rerun(files)
    \/ \E q \in TypedQuestions, outcome \in ChainOutcomes : Ask(q, outcome)
    \/ \E n \in ClickedButtons, outcome \in ChainOutcomes : ClickSuggestion(n, outcome)

SpecApp == InitApp /\ [][NextApp]_vars

(***************************************************************************)
(* Properties of generate_suggestions.                                     *)
(***************************************************************************)
QuestionA == <<"a", "?">>
QuestionB == <<"b", "?">>

RECURSIVE FromDistinctPositions(_, _)
FromDistinctPositions(res, pool) ==
    IF res = <<>> THEN TRUE
    ELSE LET at == {k \in 1..Len(pool) : pool[k] = Head(res)}
         IN  /\ at # {}
             /\ FromDistinctPositions(Tail(res),
                    SubSeq(pool, 1, Min(at) - 1) \o SubSeq(pool, Min(at) + 1, Len(pool)))

\* C9: the normalisation of a pool of n questions: n < 8 gives the pool, in
\* order, followed by the first 8 - n fallback questions (8 entries);
\* 8 <= n <= 10 gives the pool unchanged; n > 10 gives exactly 10 entries
\* taken from distinct positions of the pool.
C9_PoolNormalization ==
    [][(sg_pc = "loop" /\ sg_pc' = "done") =>
        LET n == Len(all_questions)
        IN  /\ n < 8 =>
                /\ Len(all_questions') = 8
                /\ SubSeq(all_questions', 1, n) = all_questions
                /\ \A k \in (n + 1)..8 : all_questions'[k] = fallback[k - n]
            /\ (n >= 8 /\ n <= 10) => all_questions' = all_questions
            /\ n > 10 =>
                /\ Len(all_questions') = 10
                /\ FromDistinctPositions(all_questions', all_questions)]_vars

\* a returned list of 10 entries that starts with "b?": every pool starts
\* with "a?" (each non-empty contribution does), so this list is a sample of
\* a pool of more than 10 and not the pool's first 10
C9_Witness ==
    /\ sg_pc = "done"
    /\ Len(docs) = 3
    /\ Len(all_questions) = 10
    /\ all_questions[1] = QuestionB

\* s.lstrip()
LStrip(s) == SubSeq(s, SkipChars(s, 1, WhiteSpace), Len(s))

\* the index of the "." or ")" of a leading "<n>." or "<n>)", 0 if none
MarkerEnd(l) ==
    LET d == SkipChars(l, 1, Digits)
    IN  IF d > 1 /\ d <= Len(l) /\ l[d] \in {".", ")"} THEN d ELSE 0

\* the filter as the claim states it
ClaimFilter(q) == WordCount(q) <= 12 /\ EndsWith(q, "?")

\* the candidates that pass the filter, in order
ClaimSurvivors(cands) ==
    LET kept == SelectSeq(cands, ClaimFilter)
    IN  [k \in 1..Len(kept) |-> Strip(kept[k])]

\* the first 5 of them
ClaimContribution(cands) == Take(ClaimSurvivors(cands), 5)

\* the text of each line of the form "<n>. <question>" or "<n>) <question>"
ClaimedNumbered(ls) ==
    LET text(l) == LET t == LStrip(l)
                   IN  IF MarkerEnd(t) = 0 THEN <<>>
                       ELSE LStrip(SubSeq(t, MarkerEnd(t) + 1, Len(t)))
        has(l) == text(l) # <<>>
        marked == SelectSeq(ls, has)
    IN  [k \in 1..Len(marked) |-> text(marked[k])]

\* every non-blank line, its LEADING bullet and number punctuation removed
ClaimedFallback(ls) ==
    LET nonblank(l) == Strip(l) # <<>>
        kept == SelectSeq(ls, nonblank)
    IN  [k \in 1..Len(kept) |->
            SubSeq(kept[k], SkipChars(kept[k], 1, BulletChars), Len(kept[k]))]

RECURSIVE MarkerTexts(_, _)
MarkerTexts(ls, k) ==
    IF k > Len(ls) THEN <<>>
    ELSE LET l == LStrip(ls[k])
             m == MarkerEnd(l)
             rest == LStrip(SubSeq(l, m + 1, Len(l)))
             later == {j \in (k + 1)..Len(ls) : Strip(ls[j]) # <<>>}
         IN  IF m = 0 THEN MarkerTexts(ls, k + 1)
             ELSE IF rest # <<>> THEN <<rest>> \o MarkerTexts(ls, k + 1)
             ELSE IF later = {} THEN <<>>
             ELSE <<LStrip(ls[Min(later)])>> \o MarkerTexts(ls, Min(later) + 1)

\* every non-blank line, the bullet and number punctuation removed from both
\* of its ends
BothEndsFallback(ls) ==
    LET nonblank(l) == Strip(l) # <<>>
        kept == SelectSeq(ls, nonblank)
    IN  [k \in 1..Len(kept) |-> StripChars(kept[k], BulletChars)]

RuleApplies(k, ent) ==
    CASE k = 1 -> ent.label = "LAW"
      [] k = 2 -> ent.label = "ORG" \/ ent.label = "GPE"
      [] k = 3 -> ent.label = "DATE"
      [] k = 4 -> SectionPattern(Strip(ent.text))
      [] k = 5 -> ent.pos \in {"PROPN", "NOUN"} /\ WordCount(Strip(ent.text)) <= 4

RuleCategory ==
    <<"Acts/Laws", "Authorities", "Dates", "Sections", "Concepts">>

\* the category of the first rule that applies, "dropped" when none does
FirstMatching(ent) ==
    LET hits == {k \in 1..5 : RuleApplies(k, ent)}
    IN  IF hits = {} THEN "dropped" ELSE RuleCategory[Min(hits)]

\* C5: each category of the returned glossary holds exactly the trimmed
\* texts of the entities whose first matching rule, in the order LAW,
\* ORG/GPE, DATE, Section pattern, noun of at most 4 words, is that
\* category; an entity no rule matches is in none; a DATE entity whose text
\* matches the Section pattern is under Dates and not under Sections.
C5_ClassificationPriority ==
    gl_pc = "returned" =>
        LET ents == documents[1].ents
            entry == results[1][2]
        IN  /\ \A c \in Categories :
                   entry[c] = {Strip(ents[k].text) :
                                     k \in {j \in 1..Len(ents) : FirstMatching(ents[j]) = c}}
            /\ \A k \in 1..Len(ents) :
                   (ents[k].label = "DATE" /\ SectionPattern(Strip(ents[k].text))) =>
                       /\ Strip(ents[k].text) \in entry["Dates"]
                       /\ Len(ents) = 1 => entry["Sections"] = {}

\* a chunk whose only entity is a DATE with a text such as " Section 5 ":
\* filed under Dates, Sections left empty
C5_Witness ==
    /\ gl_pc = "returned"
    /\ Len(documents[1].ents) = 1
    /\ documents[1].ents[1].label = "DATE"
    /\ SectionPattern(Strip(documents[1].ents[1].text))
    /\ results[1][2]["Dates"] = {Strip(documents[1].ents[1].text)}
    /\ results[1][2]["Sections"] = {}

\* C6 as stated: the returned list has one entry per source identifier: no
\* two entries have the same source, and there are as many entries as there
\* are distinct sources among the chunks.
C6_OneEntryPerSource ==
    gl_pc = "returned" =>
        /\ \A j, k \in 1..Len(results) : j # k => results[j][1] # results[k][1]
        /\ Len(results) = Cardinality({SourceOf(documents[k]) : k \in 1..Len(documents)})

\* C8: within one call, a first load that fails for the missing model is
\* followed by one fetch and, once the fetch has returned, by one retry of
\* the load (never a second fetch, never a third load); a retry that fails
\* ends the call with the error, nothing cached and nothing returned; and a
\* model that was loaded once is never constructed again.
C8_RecognizerInit ==
    /\ download_calls <= 1
    /\ load_calls <= 2
    /\ download_calls = 1 => load_calls >= 1
    /\ load_calls = 2 => download_calls = 1
    /\ gl_pc = "download" => (load_calls = 1 /\ download_calls = 0)
    /\ gl_pc = "retry" => (load_calls = 1 /\ download_calls = 1)
    /\ (gl_pc \in {"loop", "returned"} /\ download_calls = 1) => load_calls = 2
    /\ (gl_pc = "raised" /\ load_calls = 2) =>
           (download_calls = 1 /\ nlp_cache = "none" /\ results = <<>>)
    /\ constructions <= 1
    /\ nlp_cache = "nlp" <=> constructions = 1
    /\ (gl_pc \in {"loop", "returned"}) => nlp_cache = "nlp"

\* the retry of the load has failed: one fetch, two loads, the error raised
C8_Witness ==
    /\ gl_pc = "raised"
    /\ load_calls = 2
    /\ download_calls = 1
    /\ nlp_cache = "none"

(***************************************************************************)
(* load_documents: coverage and size of the chunks                         *)
(***************************************************************************)
\* the positions, in the text of a page, of the first character of
\* paragraph k and of the last character of paragraph k
StartOf(L, k) == JoinedLen(L, 1, k - 1) + SeparatorLen + 1
EndOf(L, k) == JoinedLen(L, 1, k)

\* the positions of the text of page n that some chunk of the page holds
Covered(n) ==
    UNION {StartOf(pages[n], chunks[k].first)..EndOf(pages[n], chunks[k].last) :
              k \in {j \in 1..Len(chunks) : chunks[j].page = n}}

\* C7 as stated: the chunks of a page hold every character position of the
\* page's text, the end of the text included, and no chunk is longer than
\* the chunk size of 500 characters.
C7_ChunksCoverAndBounded ==
    ch_pc = "returned" =>
        /\ \A n \in 1..Len(pages) :
               1..JoinedLen(pages[n], 1, Len(pages[n])) \subseteq Covered(n)
        /\ \A k \in 1..Len(chunks) : chunks[k].length <= ChunkSize

(***************************************************************************)
(* app.py: the session                                                     *)
(***************************************************************************)
\* C2 as stated: whenever files are uploaded, the chain, the glossary and
\* the suggestions held in the session are the ones computed from the files
\* the uploader holds now.
C2_DerivedStateCurrent ==
    uploaded_files # <<>> =>
        /\ chat_chain = BuildChain(AllDocs(uploaded_files))
        /\ glossary = GlossaryFor(AllDocs(uploaded_files))
        /\ suggestions \in SuggestionOutcomes(AllDocs(uploaded_files))

\* the turns of the calls among the first n that returned, in order
RECURSIVE CompletedTurns(_, _)
CompletedTurns(calls, n) ==
    IF n = 0 THEN <<>>
    ELSE IF calls[n].outcome.kind = "answer"
         THEN Append(CompletedTurns(calls, n - 1),
                     <<calls[n].question, calls[n].outcome.answer>>)
         ELSE CompletedTurns(calls, n - 1)

\* C3: the k-th call of the chain receives as chat_history the (question,
\* answer) pairs of all the calls before it that returned, in order, and the
\* memory after the calls made so far is those pairs for all of them: each
\* returned call has added its own turn at the end and nothing else has
\* changed the memory.
C3_ChainReceivesAllTurns ==
    /\ \A k \in 1..Len(chain_calls) :
           chain_calls[k].chat_history = CompletedTurns(chain_calls, k - 1)
    /\ chat_memory = CompletedTurns(chain_calls, Len(chain_calls))

\* a third question asked after two answered ones with different turns: the
\* chain has received both
C3_Witness ==
    /\ Len(chain_calls) = 3
    /\ Len(chain_calls[3].chat_history) = 2
    /\ chain_calls[3].chat_history[1] # chain_calls[3].chat_history[2]
    /\ chain_calls[3].chat_history[1] = <<chain_calls[1].question, chain_calls[1].outcome.answer>>
    /\ Len(chat_memory) = 3

\* C4: a run in which the chain raises ends with that error, leaves
\* chat_memory as it was, and adds to chat_history the user's message and
\* no assistant message.
C4_ChainErrorPropagates ==
    [][(/\ Len(chain_calls') = Len(chain_calls) + 1
        /\ chain_calls'[Len(chain_calls')].outcome.kind = "raised")
       => /\ run_error' = "chain raised"
          /\ chat_memory' = chat_memory
          /\ chat_history' = Append(chat_history,
                 [role |-> "user", content |-> chain_calls'[Len(chain_calls')].question])]_vars

\* the chain has raised on a question asked after an answered one
C4_Witness ==
    /\ run_error = "chain raised"
    /\ Len(chain_calls) = 2
    /\ chain_calls[2].outcome.kind = "raised"
    /\ Len(chat_memory) = 1
    /\ Len(chat_history) = 3
    /\ chat_history[3].role = "user"

====
